---- MODULE Spec2Model ----
(***************************************************************************)
(* Model of the plotting transforms of luxgiant_dstream/plots.py:          *)
(* manhattan_plot (with draw_chrom_groups and annotate_plot) and qq_plot   *)
(* (with its nested plot_confidence_interval).                             *)
(*                                                                         *)
(* Numbers.  Floating point values are carried as integers:                *)
(*   - a p-value p is the integer 100*p (hundredths);                      *)
(*   - a -log10 value is carried in millionths (micro units), so that      *)
(*     np.round(x, 3) is a real rounding to a multiple of 1000;            *)
(*   - np.log10(0) = -inf, so -log10(0) is the value Inf;                  *)
(*   - a tick position (first + last) / 2 is carried in halves, i.e. as    *)
(*     the integer first + last.                                           *)
(***************************************************************************)
EXTENDS Integers, Sequences, FiniteSets, TLC

VARIABLES
    call,             \* which function ran: "none", "manhattan_plot", "qq_plot", ...
    raised,           \* the exception that ended the call: [type, at], type "none" if it returned
    df_gwas,          \* manhattan_plot: the input table, rows [CHR, SNP, p]
    df_annot,         \* manhattan_plot: [none |-> BOOLEAN, rows |-> rows [SNP, GENE]]
    annotate,         \* manhattan_plot: the annotate flag
    df,               \* manhattan_plot: the sorted frame, rows [idx, CHR, SNP, p, log10P, ind]
    highlighted_snps, \* manhattan_plot: [bound |-> BOOLEAN, rows |-> rows of df]
    x_labels,         \* draw_chrom_groups: tick labels
    x_labels_pos,     \* draw_chrom_groups: tick positions, in halves
    scatter,          \* draw_chrom_groups: the batches handed to ax.scatter
    texts,            \* annotate_plot: the (x, y, text) labels handed to ax.text
    pvalues,          \* qq_plot: the input series
    n,                \* qq_plot / plot_confidence_interval: the sample size
    conf_points,      \* plot_confidence_interval: the point budget it was called with
    rank,             \* qq_plot: stats.rankdata(pvalues, method='ordinal')
    log_p,            \* qq_plot: -log10(pvalues), line 168
    exp_x,            \* qq_plot: expected quantiles, line 169
    thin,             \* qq_plot: the thinned frame, rows [pvalues, exp_x]
    mpts,             \* plot_confidence_interval: the polygon, a sequence of [x, y]
    writes            \* plot_confidence_interval: how often each slot of mpts was assigned

vars == <<call, raised, df_gwas, df_annot, annotate, df, highlighted_snps, x_labels,
          x_labels_pos, scatter, texts, pvalues, n, conf_points, rank, log_p, exp_x,
          thin, mpts, writes>>

manhattan_vars == <<df_gwas, df_annot, annotate, df, highlighted_snps, x_labels,
                    x_labels_pos, scatter, texts>>

qq_vars == <<pvalues, rank, log_p, exp_x, thin>>

band_vars == <<n, conf_points, mpts, writes>>

(***************************************************************************)
(* Bounds of the model.                                                    *)
(***************************************************************************)
MaxRows == 3        \* longest df_gwas
MaxAnnot == 2       \* longest df_annot
MaxSeries == 4      \* longest p-value series given to qq_plot
MaxBandN == 8       \* largest sample size given to plot_confidence_interval alone
MaxBudget == 6      \* largest point budget given to plot_confidence_interval alone
MaxThin == 3        \* longest series given to the thinning step alone

\* the rows a df_gwas is made of: two chromosomes, two variant ids, positive
\* p-values (in hundredths)
GwasRows ==
    { [CHR |-> 1, SNP |-> "rs1", p |-> 5],  [CHR |-> 1, SNP |-> "rs2", p |-> 100],
      [CHR |-> 2, SNP |-> "rs1", p |-> 50], [CHR |-> 2, SNP |-> "rs2", p |-> 5] }

\* the rows a df_annot is made of: "rs1" under two gene names, and "rs9",
\* which is in no df_gwas
AnnotRows ==
    { [SNP |-> "rs1", GENE |-> "G1"], [SNP |-> "rs1", GENE |-> "G2"],
      [SNP |-> "rs9", GENE |-> "G1"] }

\* the p-values of a qq series, in hundredths
SeriesPs == {0, 1, 5, 10, 25, 50, 100}

(***************************************************************************)
(* Arithmetic: np.log10, np.round.                                         *)
(***************************************************************************)
\* -log10(0) = inf (np.log10(0) is -inf, with a RuntimeWarning, not an error)
Inf == 1000000000

\* round(10^6 * log10(k)) for k = 1..100
Log10Table == <<
    0, 301030, 477121, 602060, 698970, 778151, 845098, 903090, 954243, 1000000,
    1041393, 1079181, 1113943, 1146128, 1176091, 1204120, 1230449, 1255273, 1278754, 1301030,
    1322219, 1342423, 1361728, 1380211, 1397940, 1414973, 1431364, 1447158, 1462398, 1477121,
    1491362, 1505150, 1518514, 1531479, 1544068, 1556303, 1568202, 1579784, 1591065, 1602060,
    1612784, 1623249, 1633468, 1643453, 1653213, 1662758, 1672098, 1681241, 1690196, 1698970,
    1707570, 1716003, 1724276, 1732394, 1740363, 1748188, 1755875, 1763428, 1770852, 1778151,
    1785330, 1792392, 1799341, 1806180, 1812913, 1819544, 1826075, 1832509, 1838849, 1845098,
    1851258, 1857332, 1863323, 1869232, 1875061, 1880814, 1886491, 1892095, 1897627, 1903090,
    1908485, 1913814, 1919078, 1924279, 1929419, 1934498, 1939519, 1944483, 1949390, 1954243,
    1959041, 1963788, 1968483, 1973128, 1977724, 1982271, 1986772, 1991226, 1995635, 2000000 >>

\* -np.log10(num / den), in micro units
NegLog10(num, den) ==
    IF num = 0 THEN Inf ELSE Log10Table[den] - Log10Table[num]

\* -np.log10(p) for a p-value in hundredths
NegLog10P(p) == NegLog10(p, 100)

\* np.round(v, 3): round half to even to a multiple of 10^-3; inf stays inf
Round3(v) ==
    IF v = Inf THEN Inf
    ELSE LET q == v \div 1000
             r == v % 1000
         IN  IF r > 500 \/ (r = 500 /\ q % 2 = 1) THEN 1000 * (q + 1) ELSE 1000 * q

IsFinite(v) == v # Inf

(***************************************************************************)
(* Sequences.                                                              *)
(***************************************************************************)
Range(s) == {s[i] : i \in DOMAIN s}

SeqsUpTo(S, k) == UNION {[1..m -> S] : m \in 0..k}

Perms(k) == {f \in [1..k -> 1..k] : \A i, j \in 1..k : i # j => f[i] # f[j]}

RECURSIVE SortedSeq(_)
\* the elements of a finite set of integers, ascending
SortedSeq(S) ==
    IF S = {} THEN <<>>
    ELSE LET m == CHOOSE x \in S : \A y \in S : x <= y
         IN  <<m>> \o SortedSeq(S \ {m})

MaxOf(S) == CHOOSE x \in S : \A y \in S : y <= x
MinOf(S) == CHOOSE x \in S : \A y \in S : x <= y

(***************************************************************************)
(* manhattan_plot, lines 50-58: the layout.                                *)
(***************************************************************************)
\* line 50-51: the copy of df_gwas with its row labels and the log10P column
WithLog10P(rows) ==
    [i \in 1..Len(rows) |->
        [idx |-> i, CHR |-> rows[i].CHR, SNP |-> rows[i].SNP, p |-> rows[i].p,
         log10P |-> NegLog10P(rows[i].p)]]

\* line 54: df.sort_values('CHR').  The default kind is 'quicksort', which is
\* not a stable sort: every order of the rows that is ascending in CHR is an
\* outcome, and the rows of one chromosome may come in any order.
sort_values(rows) ==
    {[i \in 1..Len(rows) |-> rows[f[i]]] : f \in
        {g \in Perms(Len(rows)) :
            \A i, j \in 1..Len(rows) : i < j => rows[g[i]].CHR <= rows[g[j]].CHR}}

\* line 57: df['ind'] = range(len(df))
AssignInd(rows) ==
    [i \in 1..Len(rows) |->
        [idx |-> rows[i].idx, CHR |-> rows[i].CHR, SNP |-> rows[i].SNP, p |-> rows[i].p,
         log10P |-> rows[i].log10P, ind |-> i - 1]]

\* line 58: df.groupby('CHR'): one group per CHR value, keys ascending, each
\* group holding its rows in the order of df
groupby(rows) ==
    LET keys == SortedSeq({rows[i].CHR : i \in DOMAIN rows})
    IN  [k \in 1..Len(keys) |->
            [name |-> keys[k],
             group |-> SelectSeq(rows, LAMBDA r : r.CHR = keys[k])]]

\* isin testing against the first identifier of the list only
isin_first_only(rows, snps) ==
    SelectSeq(rows, LAMBDA r : Len(snps) > 0 /\ r.SNP = snps[1])

\* line 62-64: df[df['SNP'].isin(snps)]
isin(rows, snps) == SelectSeq(rows, LAMBDA r : r.SNP \in Range(snps))

Column(rows, c) == [i \in 1..Len(rows) |-> rows[i][c]]

(***************************************************************************)
(* draw_chrom_groups, lines 103-131.                                       *)
(***************************************************************************)
colors == <<"grey", "skyblue">>

\* middle_pos taking the first index of the group as the tick
middle_pos_first_index(group) == group[1].ind + group[1].ind

\* line 120: (group['ind'].iloc[-1] + group['ind'].iloc[0]) / 2, in halves
middle_pos(group) == group[Len(group)].ind + group[1].ind

\* lines 113-129: the loop over the groups.  The highlighted batch is drawn
\* inside the loop, once per group.
draw_chrom_groups(df_chr_group, highlighted) ==
    LET Batches(num) ==
            <<[x |-> Column(df_chr_group[num].group, "ind"),
               y |-> Column(df_chr_group[num].group, "log10P"),
               color |-> colors[((num - 1) % Len(colors)) + 1], s |-> 10]>>
            \o (IF highlighted.bound
                  THEN <<[x |-> Column(highlighted.rows, "ind"),
                          y |-> Column(highlighted.rows, "log10P"),
                          color |-> "red", s |-> 50]>>
                  ELSE <<>>)
        RECURSIVE Loop(_)
        Loop(num) == IF num = 0 THEN <<>> ELSE Loop(num - 1) \o Batches(num)
    IN  [x_labels |-> [k \in 1..Len(df_chr_group) |-> df_chr_group[k].name],
         x_labels_pos |-> [k \in 1..Len(df_chr_group) |-> middle_pos(df_chr_group[k].group)],
         scatter |-> Loop(Len(df_chr_group))]

(***************************************************************************)
(* annotate_plot, lines 133-145.                                           *)
(***************************************************************************)
\* list.index: the first position holding the value
index(list, v) == MinOf({i \in DOMAIN list : list[i] = v})

\* lines 135-141: one text per highlighted row, the gene found through
\* snps.index(row['SNP'])
annotate_plot(highlighted_rows, snps, genes) ==
    [i \in 1..Len(highlighted_rows) |->
        [x |-> highlighted_rows[i].ind, y |-> highlighted_rows[i].log10P,
         text |-> genes[index(snps, highlighted_rows[i].SNP)]]]

(***************************************************************************)
(* manhattan_plot, lines 28-101.                                           *)
(***************************************************************************)
NoError == [type |-> "none", at |-> "none"]

Unbound == [bound |-> FALSE, rows |-> <<>>]

GwasTables == SeqsUpTo(GwasRows, MaxRows)

AnnotTables ==
    {[none |-> TRUE, rows |-> <<>>]} \cup
    {[none |-> FALSE, rows |-> r] : r \in SeqsUpTo(AnnotRows, MaxAnnot)}

\* lines 75-81: what ends the call after the groups are drawn.
\*   line 77 passes three arguments to annotate_plot, which takes four:
\*     TypeError; with df_annot None, highlighted_snps is not bound there;
\*   line 81 takes max() of an empty column: ValueError.
\* (The p-values of GwasRows are positive, so no limit is infinite.)
ManhattanRaise(annot, flag, sorted) ==
    IF flag /\ annot.none THEN [type |-> "UnboundLocalError", at |-> "annotate_plot"]
    ELSE IF flag THEN [type |-> "TypeError", at |-> "annotate_plot"]
    ELSE IF Len(sorted) = 0 THEN [type |-> "ValueError", at |-> "max"]
    ELSE NoError

\* (a value bound by \E x \in {e} is computed once)
ManhattanPlot ==
    /\ call = "none"
    /\ \E table \in GwasTables :
       \E sorted \in sort_values(WithLog10P(table)) :
       \E frame \in {AssignInd(sorted)} :
       \E groups \in {groupby(frame)} :
       \E annot \in AnnotTables, flag \in BOOLEAN :
       \E hl \in {IF annot.none THEN Unbound
                  ELSE [bound |-> TRUE, rows |-> isin(frame, Column(annot.rows, "SNP"))]} :
       \E drawn \in {draw_chrom_groups(groups, hl)} :
          /\ call' = "manhattan_plot"
          /\ df_gwas' = table
          /\ df_annot' = annot
          /\ annotate' = flag
          /\ df' = frame
          /\ highlighted_snps' = hl
          /\ x_labels' = drawn.x_labels
          /\ x_labels_pos' = drawn.x_labels_pos
          /\ scatter' = drawn.scatter
          \* line 77 never reaches the body of annotate_plot
          /\ texts' = <<>>
          /\ raised' = ManhattanRaise(annot, flag, frame)
    /\ UNCHANGED <<qq_vars, band_vars>>

(***************************************************************************)
(* qq_plot, lines 164-194: ranks, quantiles, thinning.                     *)
(***************************************************************************)
\* rankdata with method='min': equal values share the lowest rank
rankdata_min(a) ==
    [i \in 1..Len(a) |-> 1 + Cardinality({j \in 1..Len(a) : a[j] < a[i]})]

\* stats.rankdata(a, method='ordinal'): the 1-based position of each value in
\* a stable ascending sort, so equal values are ranked in the order they occur
rankdata(a) ==
    [i \in 1..Len(a) |->
        1 + Cardinality({j \in 1..Len(a) : a[j] < a[i]})
          + Cardinality({j \in 1..Len(a) : j < i /\ a[j] = a[i]})]

\* line 168: -np.log10(pvalues)
ObservedOf(a) == [i \in 1..Len(a) |-> NegLog10P(a[i])]

\* the expected quantile without the half-rank offset: -log10(rank / n)
ExpectedOf_no_offset(ranks, size) ==
    [i \in 1..Len(ranks) |-> NegLog10(2 * ranks[i], 2 * size)]

\* line 169: -np.log10((rank - 0.5) / n), i.e. -log10((2 rank - 1) / (2 n))
ExpectedOf(ranks, size) ==
    [i \in 1..Len(ranks) |-> NegLog10(2 * ranks[i] - 1, 2 * size)]

\* lines 185-188: the frame of the rounded columns
RoundedFrame(obs, exp) ==
    [i \in 1..Len(obs) |-> [pvalues |-> Round3(obs[i]), exp_x |-> Round3(exp[i])]]

\* drop_duplicates(keep='last'): a row is kept unless an equal row comes after it
drop_duplicates_keep_last(rows) ==
    LET Keep(i) == \A j \in (i + 1)..Len(rows) : rows[j] # rows[i]
        RECURSIVE Scan(_)
        Scan(i) == IF i = 0 THEN <<>>
                   ELSE IF Keep(i) THEN Append(Scan(i - 1), rows[i])
                   ELSE Scan(i - 1)
    IN  Scan(Len(rows))

\* DataFrame.drop_duplicates(): a row is kept unless an equal row comes before it
drop_duplicates(rows) ==
    LET Keep(i) == \A j \in 1..(i - 1) : rows[j] # rows[i]
        RECURSIVE Scan(_)
        Scan(i) == IF i = 0 THEN <<>>
                   ELSE IF Keep(i) THEN Append(Scan(i - 1), rows[i])
                   ELSE Scan(i - 1)
    IN  Scan(Len(rows))

\* lines 185-188
Thin(obs, exp) == drop_duplicates(RoundedFrame(obs, exp))

\* line 194: [min(log_p.min(), exp_x.min()) - 0.5, max(log_p.max(), exp_x.max()) + 1]
\* of the thinned columns, for a non-empty frame
axis_range(frame) ==
    LET all == {frame[i].pvalues : i \in DOMAIN frame} \cup {frame[i].exp_x : i \in DOMAIN frame}
        hi == MaxOf(all)
    IN  <<MinOf(all) - 500000, IF hi = Inf THEN Inf ELSE hi + 1000000>>

(***************************************************************************)
(* plot_confidence_interval, lines 199-237.                                *)
(***************************************************************************)
\* line 239: conf_alpha = 0.05, in thousandths
ConfAlpha == 50

\* line 239: conf_points = 1500
ConfPoints == 1500

\* stats.beta.ppf(q, a, b) is kept as the term [q, a, b], q in thousandths
\* line 227: -log10(beta.ppf(1 - conf_alpha / 2, i, n - i))
y_upper(i, size) == [q |-> 1000 - ConfAlpha \div 2, a |-> i, b |-> size - i]

\* line 228: -log10(beta.ppf(conf_alpha / 2, i, n - i))
y_lower(i, size) == [q |-> ConfAlpha \div 2, a |-> i, b |-> size - i]

\* line 225: -log10((i - 0.5) / n)
band_x(i, size) == NegLog10(2 * i - 1, 2 * size)

\* line 220: min(conf_points, n - 1)
ClampPoints(budget, size) == IF budget < size - 1 THEN budget ELSE size - 1

\* line 230-231: the slot (0-based) the upper bound of i goes to
UpperSlot(i, cp) == i - 1

\* the lower slot with the 1-based arithmetic of the R original left in place
LowerSlot_one_based(i, cp) == cp * 2 + 1 - i

\* line 232-233: the slot (0-based) the lower bound of i goes to
LowerSlot(i, cp) == cp * 2 - i

\* line 221: np.zeros((conf_points * 2, 2))
ZeroPoint == [x |-> 0, y |-> [q |-> 0, a |-> 0, b |-> 0]]

\* lines 220-233, for n >= 1: the polygon and the number of assignments each
\* of its slots received.  Slot s of mpts is element s + 1 of the sequence.
plot_confidence_interval(size, budget) ==
    LET cp == ClampPoints(budget, size)
        RECURSIVE Loop(_)
        Loop(i) ==
            IF i = 0
            THEN [mpts |-> [s \in 1..(cp * 2) |-> ZeroPoint],
                  writes |-> [s \in 1..(cp * 2) |-> 0]]
            ELSE LET prev == Loop(i - 1)
                     u == UpperSlot(i, cp) + 1
                     l == LowerSlot(i, cp) + 1
                     m1 == [prev.mpts EXCEPT ![u] = [x |-> band_x(i, size), y |-> y_upper(i, size)]]
                     w1 == [prev.writes EXCEPT ![u] = @ + 1]
                 IN  [mpts |-> [m1 EXCEPT ![l] = [x |-> band_x(i, size), y |-> y_lower(i, size)]],
                      writes |-> [w1 EXCEPT ![l] = @ + 1]]
    IN  Loop(cp)

(***************************************************************************)
(* qq_plot, lines 147-263.                                                 *)
(***************************************************************************)
\* the series qq_plot is given: every short series, and the series
\* [0.5, 0.25, 0.1, 0.05, 0.01]
Series == SeqsUpTo(SeriesPs, MaxSeries) \cup {<<50, 25, 10, 5, 1>>}

\* what ends the call:
\*   line 194 takes .min() of an empty column: ValueError;
\*   line 252 hands an infinite limit to set_xlim: ValueError.
\* No line of qq_plot looks at the p-values before it computes with them.
QQRaise(frame) ==
    IF Len(frame) = 0 THEN [type |-> "ValueError", at |-> "min"]
    ELSE IF ~IsFinite(axis_range(frame)[2]) THEN [type |-> "ValueError", at |-> "set_xlim"]
    ELSE NoError

QQPlot ==
    /\ call = "none"
    /\ \E a \in Series :
       \E ranks \in {rankdata(a)} :
       \E obs \in {ObservedOf(a)}, exp \in {ExpectedOf(ranks, Len(a))} :
       \E frame \in {Thin(obs, exp)} :
       \E band \in {IF Len(a) = 0 THEN [mpts |-> <<>>, writes |-> <<>>]
                    ELSE plot_confidence_interval(Len(a), ConfPoints)} :
          /\ call' = "qq_plot"
          /\ pvalues' = a
          /\ n' = Len(a)
          /\ rank' = ranks
          /\ log_p' = obs
          /\ exp_x' = exp
          /\ thin' = frame
          /\ conf_points' = IF Len(a) = 0 THEN 0 ELSE ConfPoints
          /\ mpts' = band.mpts
          /\ writes' = band.writes
          /\ raised' = QQRaise(frame)
    /\ UNCHANGED manhattan_vars

Init ==
    /\ call = "none"
    /\ raised = NoError
    /\ df_gwas = <<>>
    /\ df_annot = [none |-> TRUE, rows |-> <<>>]
    /\ annotate = FALSE
    /\ df = <<>>
    /\ highlighted_snps = Unbound
    /\ x_labels = <<>>
    /\ x_labels_pos = <<>>
    /\ scatter = <<>>
    /\ texts = <<>>
    /\ pvalues = <<>>
    /\ n = 0
    /\ conf_points = 0
    /\ rank = <<>>
    /\ log_p = <<>>
    /\ exp_x = <<>>
    /\ thin = <<>>
    /\ mpts = <<>>
    /\ writes = <<>>

Next == ManhattanPlot \/ QQPlot

Spec == Init /\ [][Next]_vars

(***************************************************************************)
(* plot_confidence_interval on its own: every sample size and every point  *)
(* budget, not only the budget of 1500 that qq_plot passes.                *)
(***************************************************************************)
ManhattanIdle ==
    /\ df_gwas = <<>>
    /\ df_annot = [none |-> TRUE, rows |-> <<>>]
    /\ annotate = FALSE
    /\ df = <<>>
    /\ highlighted_snps = Unbound
    /\ x_labels = <<>>
    /\ x_labels_pos = <<>>
    /\ scatter = <<>>
    /\ texts = <<>>

InitBand ==
    /\ call = "none"
    /\ raised = NoError
    /\ ManhattanIdle
    /\ pvalues = <<>>
    /\ rank = <<>>
    /\ log_p = <<>>
    /\ exp_x = <<>>
    /\ thin = <<>>
    /\ n \in 1..MaxBandN
    /\ conf_points \in 0..MaxBudget
    /\ mpts = <<>>
    /\ writes = <<>>

PlotConfidenceInterval ==
    /\ call = "none"
    /\ call' = "plot_confidence_interval"
    /\ mpts' = plot_confidence_interval(n, conf_points).mpts
    /\ writes' = plot_confidence_interval(n, conf_points).writes
    /\ UNCHANGED <<raised, manhattan_vars, qq_vars, n, conf_points>>

SpecBand == InitBand /\ [][PlotConfidenceInterval]_vars

(***************************************************************************)
(* The thinning step of qq_plot (lines 184-192) on its own.  Rows collapse *)
(* only when two ranks are within 10^-3 on the log scale, which takes a    *)
(* series of several hundred p-values; here the columns of such a series   *)
(* are given directly, as they stand after line 169: the expected values   *)
(* pairwise different (ranks are), and a larger expected value never with  *)
(* a smaller observed value (a smaller p-value has the smaller rank).      *)
(***************************************************************************)
ThinObserved == {1234400, 1234500, 1234600, 1235500}

ThinExpected == {2000100, 2000400, 2000600, 2001400}

ThinColumns ==
    {c \in SeqsUpTo(ThinObserved \X ThinExpected, MaxThin) :
        \A i, j \in DOMAIN c :
            /\ i # j => c[i][2] # c[j][2]
            /\ c[i][2] > c[j][2] => c[i][1] >= c[j][1]}

InitThin ==
    /\ call = "none"
    /\ raised = NoError
    /\ ManhattanIdle
    /\ pvalues = <<>>
    /\ rank = <<>>
    /\ \E c \in ThinColumns :
          /\ log_p = [i \in DOMAIN c |-> c[i][1]]
          /\ exp_x = [i \in DOMAIN c |-> c[i][2]]
          /\ n = Len(c)
    /\ thin = <<>>
    /\ conf_points = 0
    /\ mpts = <<>>
    /\ writes = <<>>

QQThin ==
    /\ call = "none"
    /\ call' = "qq_plot.thin"
    /\ thin' = Thin(log_p, exp_x)
    /\ UNCHANGED <<raised, manhattan_vars, pvalues, rank, log_p, exp_x, band_vars>>

SpecThin == InitThin /\ [][QQThin]_vars

(***************************************************************************)
(* Properties.                                                             *)
(***************************************************************************)
IndsOf(c) == {df[i].ind : i \in {k \in DOMAIN df : df[k].CHR = c}}

ChromsOf(rows) == {rows[i].CHR : i \in DOMAIN rows}

\* C1: for a non-empty table the sorted records carry the indices 0..n-1 in
\* sorted order, each input record exactly once; the records of a chromosome
\* fill one interval of indices, the tick labels are the chromosomes in
\* ascending order, and each tick is (first + last) / 2 of its interval
\* (carried in halves), which is the record's own index when it is alone.
C1_Layout ==
    (call = "manhattan_plot" /\ Len(df_gwas) > 0) =>
        /\ Len(df) = Len(df_gwas)
        /\ {df[i].idx : i \in DOMAIN df} = DOMAIN df_gwas
        /\ \A i \in DOMAIN df :
              /\ df[i].ind = i - 1
              /\ df[i].CHR = df_gwas[df[i].idx].CHR
              /\ df[i].SNP = df_gwas[df[i].idx].SNP
        /\ \A i, j \in DOMAIN df : i < j => df[i].CHR <= df[j].CHR
        /\ \A c \in ChromsOf(df_gwas) :
              \A inds \in {IndsOf(c)} : inds = MinOf(inds)..MaxOf(inds)
        /\ Len(x_labels) = Cardinality(ChromsOf(df_gwas))
        /\ Len(x_labels_pos) = Len(x_labels)
        /\ \A k \in DOMAIN x_labels :
              /\ x_labels[k] \in ChromsOf(df_gwas)
              /\ \A m \in DOMAIN x_labels : k < m => x_labels[k] < x_labels[m]
              /\ \A inds \in {IndsOf(x_labels[k])} :
                    /\ x_labels_pos[k] = MinOf(inds) + MaxOf(inds)
                    /\ Cardinality(inds) = 1 => inds = {x_labels_pos[k] \div 2}

\* C1 witness: chromosomes [2, 1, 2] are laid out as chromosome 1 at index 0
\* (tick 0) and chromosome 2 at indices 1..2 (tick 1.5)
C1_Witness ==
    /\ call = "manhattan_plot"
    /\ Len(df_gwas) = 3
    /\ <<df_gwas[1].CHR, df_gwas[2].CHR, df_gwas[3].CHR>> = <<2, 1, 2>>
    /\ x_labels = <<1, 2>>
    /\ x_labels_pos = <<0, 3>>

\* C2: the sort is stable: of two records of one chromosome, the one that is
\* first in the input table has the smaller linear index.
C2_StableSort ==
    call = "manhattan_plot" =>
        \A i, j \in DOMAIN df :
            (df[i].CHR = df[j].CHR /\ df[i].idx < df[j].idx) => df[i].ind < df[j].ind

\* C3: the ranks are a permutation of 1..n, ascending in the p-value, equal
\* p-values ranked in input order; point i has the expected value
\* -log10((rank_i - 0.5) / n) and the observed value -log10(p_i).
C3_OrdinalRanks ==
    call = "qq_plot" =>
        /\ Len(rank) = Len(pvalues)
        /\ Len(exp_x) = Len(pvalues)
        /\ Len(log_p) = Len(pvalues)
        /\ {rank[i] : i \in DOMAIN rank} = 1..Len(pvalues)
        /\ \A i, j \in DOMAIN pvalues :
              /\ pvalues[i] < pvalues[j] => rank[i] < rank[j]
              /\ (pvalues[i] = pvalues[j] /\ i < j) => rank[i] < rank[j]
        /\ \A i \in DOMAIN pvalues :
              /\ exp_x[i] = Log10Table[2 * Len(pvalues)] - Log10Table[2 * rank[i] - 1]
              /\ log_p[i] = IF pvalues[i] = 0 THEN Inf
                            ELSE Log10Table[100] - Log10Table[pvalues[i]]

\* C3 witness: [0.5, 0.25, 0.1, 0.05, 0.01] is ranked [5, 4, 3, 2, 1]
C3_Witness ==
    /\ call = "qq_plot"
    /\ pvalues = <<50, 25, 10, 5, 1>>
    /\ rank = <<5, 4, 3, 2, 1>>

\* C3 second case, equal p-values: the first of them has the lower rank
C3_TiesReached ==
    /\ call = "qq_plot"
    /\ pvalues = <<50, 5, 50>>
    /\ rank = <<2, 1, 3>>

\* C4: a series holding a p-value of 0 is rejected with InvalidInput before
\* any quantile, frame or polygon is computed; a non-empty series with every
\* p-value in (0, 1] is accepted.
C4_ZeroRejected ==
    (call = "qq_plot" /\ Len(pvalues) > 0) =>
        IF \E i \in DOMAIN pvalues : pvalues[i] = 0
        THEN /\ raised.type = "InvalidInput"
             /\ exp_x = <<>>
             /\ thin = <<>>
             /\ mpts = <<>>
        ELSE raised = NoError

\* the accepted half of C4, which the code does satisfy: a non-empty series
\* of p-values in (0, 1] returns, and p = 1.0 has the observed value 0.0
C4_PositiveAccepted ==
    (call = "qq_plot" /\ Len(pvalues) > 0 /\ \A i \in DOMAIN pvalues : pvalues[i] > 0) =>
        /\ raised = NoError
        /\ \A i \in DOMAIN pvalues : pvalues[i] = 100 => log_p[i] = 0

RoundedPair(i) == [pvalues |-> Round3(log_p[i]), exp_x |-> Round3(exp_x[i])]

FirstAt(row) == MinOf({i \in DOMAIN log_p : RoundedPair(i) = row})

DuplicatedPairs == {ij \in (DOMAIN log_p) \X (DOMAIN log_p) :
                        ij[1] < ij[2] /\ RoundedPair(ij[1]) = RoundedPair(ij[2])}

\* C5: the thinned frame holds exactly the distinct rounded (expected,
\* observed) pairs of the input, none twice, in the order of their first
\* occurrence; with exactly one duplicated rounded pair it has n - 1 rows.
C5_Thinning ==
    call = "qq_plot.thin" =>
        /\ {thin[k] : k \in DOMAIN thin} = {RoundedPair(i) : i \in DOMAIN log_p}
        /\ \A k, m \in DOMAIN thin : k # m => thin[k] # thin[m]
        /\ \A k, m \in DOMAIN thin : k < m => FirstAt(thin[k]) < FirstAt(thin[m])
        /\ Cardinality(DuplicatedPairs) = 1 => Len(thin) = Len(log_p) - 1

\* C5 witness: three points, the first and the last with the same rounded
\* pair and another pair between them; two rows survive, the first one first
C5_Witness ==
    /\ call = "qq_plot.thin"
    /\ Len(log_p) = 3
    /\ RoundedPair(1) = RoundedPair(3)
    /\ RoundedPair(1) # RoundedPair(2)
    /\ log_p[1] # log_p[3]
    /\ Len(thin) = 2
    /\ thin[1] = RoundedPair(1)

BandPoints == IF conf_points < n - 1 THEN conf_points ELSE n - 1

\* C6: for n >= 2 the polygon has 2 * min(C, n - 1) vertices, every slot is
\* assigned exactly once, slot i - 1 holds the upper bound of i and slot
\* 2 C' - i the lower bound of i (i = 1..C'), both with the x of i.
C6_Polygon ==
    (call = "plot_confidence_interval" /\ n >= 2) =>
        /\ Len(mpts) = 2 * BandPoints
        /\ Len(writes) = 2 * BandPoints
        /\ \A s \in DOMAIN writes : writes[s] = 1
        /\ \A i \in 1..BandPoints :
              /\ mpts[i].y.q = 975
              /\ mpts[i].y.a = i
              /\ mpts[2 * BandPoints - i + 1].y.q = 25
              /\ mpts[2 * BandPoints - i + 1].y.a = i
              /\ mpts[i].x = Log10Table[2 * n] - Log10Table[2 * i - 1]
              /\ mpts[2 * BandPoints - i + 1].x = mpts[i].x

\* C6 witness: a budget below n - 1 (n = 5, C = 2) gives four vertices
C6_Witness ==
    /\ call = "plot_confidence_interval"
    /\ n = 5
    /\ conf_points = 2
    /\ Len(mpts) = 4
    /\ mpts[3].y.a = 2
    /\ mpts[4].y.a = 1

\* C7: both bounds of band point i are Beta quantiles with the shape
\* parameters (i, n - i + 1), the upper branch at 1 - alpha / 2 and the lower
\* at alpha / 2, so the second shape parameter is at least 2.
C7_BetaShape ==
    (call = "plot_confidence_interval" /\ n >= 2) =>
        \A i \in 1..BandPoints :
            /\ mpts[i].y = [q |-> 975, a |-> i, b |-> n - i + 1]
            /\ mpts[2 * BandPoints - i + 1].y = [q |-> 25, a |-> i, b |-> n - i + 1]
            /\ mpts[i].y.b >= 2

LastGene(snp) ==
    df_annot.rows[MaxOf({a \in DOMAIN df_annot.rows : df_annot.rows[a].SNP = snp})].GENE

DuplicateIds ==
    \E a, b \in DOMAIN df_annot.rows :
        /\ a < b
        /\ df_annot.rows[a].SNP = df_annot.rows[b].SNP
        /\ df_annot.rows[a].GENE # df_annot.rows[b].GENE

\* C8: with a variant_id listed twice under different gene names, labelling
\* raises no error and every highlighted point is labelled with the
\* gene_name of the last occurrence of its id.
C8_LastGeneWins ==
    (call = "manhattan_plot" /\ annotate /\ ~df_annot.none /\ DuplicateIds
        /\ Len(df_gwas) > 0) =>
        /\ raised = NoError
        /\ Len(texts) = Len(highlighted_snps.rows)
        /\ \A i \in DOMAIN texts :
              /\ texts[i].x = highlighted_snps.rows[i].ind
              /\ texts[i].text = LastGene(highlighted_snps.rows[i].SNP)

\* the body of annotate_plot, had line 77 passed snps as well: the labels it
\* would attach are those of the last occurrence of each id
C8_BodyLastGene ==
    (call = "manhattan_plot" /\ ~df_annot.none /\ DuplicateIds) =>
        \A t \in {annotate_plot(highlighted_snps.rows, Column(df_annot.rows, "SNP"),
                                Column(df_annot.rows, "GENE"))} :
            \A i \in DOMAIN t : t[i].text = LastGene(highlighted_snps.rows[i].SNP)

AnnotIds == {df_annot.rows[a].SNP : a \in DOMAIN df_annot.rows}

\* C9: the highlight set is exactly the records of the layout whose id is in
\* the annotation table, each once, with the linear index and log10p they
\* have in the layout; ids that are in no record add nothing and raise
\* nothing; the red batches handed to scatter are those records.
C9_Highlights ==
    (call = "manhattan_plot" /\ ~df_annot.none) =>
        /\ highlighted_snps.bound
        /\ \A i \in DOMAIN df :
              Cardinality({h \in DOMAIN highlighted_snps.rows :
                              highlighted_snps.rows[h] = df[i]})
                  = IF df[i].SNP \in AnnotIds THEN 1 ELSE 0
        /\ \A h \in DOMAIN highlighted_snps.rows :
              \E i \in DOMAIN df :
                  /\ highlighted_snps.rows[h] = df[i]
                  /\ highlighted_snps.rows[h].ind = i - 1
                  /\ highlighted_snps.rows[h].log10P
                        = Log10Table[100] - Log10Table[df_gwas[df[i].idx].p]
        /\ \A b \in DOMAIN scatter :
              scatter[b].color = "red" =>
                  /\ Len(scatter[b].x) = Len(highlighted_snps.rows)
                  /\ \A h \in DOMAIN highlighted_snps.rows :
                        /\ scatter[b].x[h] = highlighted_snps.rows[h].ind
                        /\ scatter[b].y[h] = highlighted_snps.rows[h].log10P
        /\ (~annotate /\ Len(df_gwas) > 0) => raised = NoError

\* C9 witness: the annotation lists "rs1" (one record of the table) and
\* "rs9" (no record): one highlight, no error
C9_Witness ==
    /\ call = "manhattan_plot"
    /\ ~df_annot.none
    /\ ~annotate
    /\ AnnotIds = {"rs1", "rs9"}
    /\ Len(df_gwas) = 3
    /\ Cardinality({i \in DOMAIN df_gwas : df_gwas[i].SNP = "rs1"}) = 1
    /\ Len(highlighted_snps.rows) = 1
    /\ highlighted_snps.rows[1].SNP = "rs1"
    /\ highlighted_snps.rows[1].ind = 2
    /\ raised = NoError

\* C10 as stated: for n >= 2 the expected values are non-decreasing in the
\* rank, and the smallest expected value is -log10((1 - 0.5) / n), the value
\* of rank 1.
C10_NonDecreasing ==
    (call = "qq_plot" /\ Len(pvalues) >= 2) =>
        /\ \A i, j \in DOMAIN rank : rank[i] < rank[j] => exp_x[i] <= exp_x[j]
        /\ MinOf({exp_x[i] : i \in DOMAIN exp_x}) = Log10Table[2 * Len(pvalues)] - Log10Table[1]
        /\ \A i \in DOMAIN rank :
              rank[i] = 1 => exp_x[i] = MinOf({exp_x[k] : k \in DOMAIN exp_x})

\* C10 amended: for n >= 2 the expected values are non-increasing in the
\* rank, and the largest expected value is -log10((1 - 0.5) / n), the value
\* of rank 1.
C10_NonIncreasing ==
    (call = "qq_plot" /\ Len(pvalues) >= 2) =>
        /\ \A i, j \in DOMAIN rank : rank[i] < rank[j] => exp_x[i] >= exp_x[j]
        /\ MaxOf({exp_x[i] : i \in DOMAIN exp_x}) = Log10Table[2 * Len(pvalues)] - Log10Table[1]
        /\ \A i \in DOMAIN rank :
              rank[i] = 1 => exp_x[i] = MaxOf({exp_x[k] : k \in DOMAIN exp_x})

\* C10 witness: n = 3, the smallest p-value last: its expected value is
\* -log10(0.5 / 3) = 0.778151, the largest of the three
C10_Witness ==
    /\ call = "qq_plot"
    /\ pvalues = <<50, 25, 1>>
    /\ rank = <<3, 2, 1>>
    /\ exp_x[3] = 778151
    /\ exp_x[1] < exp_x[2]
    /\ exp_x[2] < exp_x[3]

\* C11: manhattan_plot on an empty table (annotate left at its default)
\* raises nothing and yields an empty layout: no points, no chromosome
\* groups, no tick labels or positions.
C11_EmptyTable ==
    (call = "manhattan_plot" /\ Len(df_gwas) = 0 /\ ~annotate) =>
        /\ raised = NoError
        /\ df = <<>>
        /\ scatter = <<>>
        /\ x_labels = <<>>
        /\ x_labels_pos = <<>>

\* the half of C11 the code does satisfy: what is laid out for an empty
\* table, before line 81 raises, is empty
C11_EmptyLayout ==
    (call = "manhattan_plot" /\ Len(df_gwas) = 0) =>
        /\ df = <<>>
        /\ scatter = <<>>
        /\ x_labels = <<>>
        /\ x_labels_pos = <<>>
====
